---- MODULE Spec2Model ----
(***************************************************************************)
(* CPU benchmark harness (Benchmark.py): the result store kept in          *)
(* cpu_benchmark_results.jsonl, the unique-name resolver, delete by system *)
(* name, the benchmark session and the comparison against history.         *)
(*                                                                         *)
(* Conventions of the model                                                *)
(*  - A Python str is a sequence of one-character strings, so that         *)
(*    strip(), lower() and f"{base}_{counter}" are computed.               *)
(*  - A duration is a whole number of ticks; Resolution ticks make         *)
(*    0.0001 s, the precision round(x, 4) keeps.  Values stored in the     *)
(*    file are in units of 0.0001 s.                                       *)
(*  - A parsed JSON object is a TLA+ record; "k in d" is k \in DOMAIN d.   *)
(*    The environment metadata of a record (timestamp, platform, cores,    *)
(*    frequency, python version) is read by no operation modelled here and *)
(*    is left out of the record.                                           *)
(*  - A line of the file is [json |-> d] (what json.dumps(d) + "\n"        *)
(*    writes), [blank |-> TRUE] (whitespace only) or [garbage |-> s]       *)
(*    (text json.loads rejects).                                           *)
(*  - Quotients of floats are kept as exact fractions [num, den].          *)
(***************************************************************************)
EXTENDS Integers, Sequences, FiniteSets, TLC

VARIABLES
    file_exists,    \* Path(RESULTS_FILE).exists()
    file,           \* the lines of RESULTS_FILE, front to back
    pc,             \* where the menu loop / the running session stands
    system_name,    \* run_benchmark: the (resolved) system name
    primes_stats,   \* run_benchmark: result of benchmark_primes
    pi_stats,       \* run_benchmark: result of benchmark_pi_estimation
    hash_stats,     \* run_benchmark: result of benchmark_hashing
    memory_stats,   \* run_benchmark: result of benchmark_memory
    warnings,       \* workloads whose validation printed a validation error
    printed,        \* what the last handler printed (sequence of lines)
    raised          \* the exception that ended the program, or "none"

vars == <<file_exists, file, pc, system_name, primes_stats, pi_stats,
          hash_stats, memory_stats, warnings, printed, raised>>

session == <<system_name, primes_stats, pi_stats, hash_stats, memory_stats, warnings>>

(***************************************************************************)
(* Bounds of the model.                                                    *)
(***************************************************************************)
\* a session starts only while the file has fewer lines than this
MaxLines == 3
\* the longest file an initial state of SpecStore / SpecCompare starts from
MaxInitLines == 2
\* ticks per 0.0001 s
Resolution == 3

\* the largest number of timed runs (the parameter runs) a benchmark function
\* is called with when it is checked on its own
MaxRuns == 3

(***************************************************************************)
(* Strings.                                                                *)
(***************************************************************************)
RECURSIVE LStrip(_)
LStrip(s) == IF s # <<>> /\ Head(s) = " " THEN LStrip(Tail(s)) ELSE s

RECURSIVE RStrip(_)
RStrip(s) ==
    IF s # <<>> /\ s[Len(s)] = " " THEN RStrip(SubSeq(s, 1, Len(s) - 1)) ELSE s

\* str.strip()
Strip(s) == RStrip(LStrip(s))

LowerChar(c) ==
    CASE c = "C" -> "c"
      [] c = "Y" -> "y"
      [] c = "X" -> "x"
      [] OTHER -> c

\* str.lower()
Lower(s) == [i \in 1..Len(s) |-> LowerChar(s[i])]

DigitChar == <<"0", "1", "2", "3", "4", "5", "6", "7", "8", "9">>

\* str(n) for n >= 0
RECURSIVE Digits(_)
Digits(n) ==
    IF n < 10 THEN <<DigitChar[n + 1]>>
    ELSE Digits(n \div 10) \o <<DigitChar[(n % 10) + 1]>>

\* f"{base_name}_{counter}"
FormatName(base_name, counter) == base_name \o <<"_">> \o Digits(counter)

(***************************************************************************)
(* Statistics of the trial durations (module statistics, min, max).        *)
(***************************************************************************)
RECURSIVE Sum(_)
Sum(seq) == IF seq = <<>> THEN 0 ELSE Head(seq) + Sum(Tail(seq))

RECURSIVE Insert(_, _)
Insert(v, sorted) ==
    IF sorted = <<>> THEN <<v>>
    ELSE IF v < Head(sorted) THEN <<v>> \o sorted
    ELSE <<Head(sorted)>> \o Insert(v, Tail(sorted))

\* sorted(xs) / list.sort(): ascending, stable
RECURSIVE SortAsc(_)
SortAsc(seq) == IF seq = <<>> THEN <<>> ELSE Insert(seq[Len(seq)], SortAsc(SubSeq(seq, 1, Len(seq) - 1)))

SeqMin(seq) == CHOOSE v \in {seq[i] : i \in 1..Len(seq)} : \A j \in 1..Len(seq) : v <= seq[j]

\* mutant of SeqMax: the duration of the last run
SeqMaxLast(seq) == seq[Len(seq)]

SeqMax(seq) == CHOOSE v \in {seq[i] : i \in 1..Len(seq)} : \A j \in 1..Len(seq) : v >= seq[j]

\* statistics.median: the middle value, or the mean of the two middle values
\* (cut to a whole tick when the count is even)
Median(times) ==
    LET s == SortAsc(times)
        n == Len(s)
    IN  IF n % 2 = 1 THEN s[(n + 1) \div 2]
        ELSE (s[n \div 2] + s[(n \div 2) + 1]) \div 2

\* the largest r with r * r <= n
ISqrt(n) == CHOOSE r \in 0..n : r * r <= n /\ (r + 1) * (r + 1) > n

\* statistics.stdev: the sample (n - 1) standard deviation, cut to a whole tick.
\* sum((x - mean)^2) / (n - 1) = (n * sum(x^2) - sum(x)^2) / (n * (n - 1))
Stdev(times) ==
    LET n  == Len(times)
        sq == [i \in 1..n |-> times[i] * times[i]]
    IN  ISqrt(((n * Sum(sq)) - (Sum(times) * Sum(times))) \div (n * (n - 1)))

\* The dict every benchmark_* function returns.  trials[i] is the i-th timed
\* run: its duration and the value it computed; 'result' is the variable the
\* loop overwrites on every run, initial before the first.
TrialStats(trials, initial) ==
    LET times == [i \in 1..Len(trials) |-> trials[i].duration]
    IN  [median |-> Median(times),
         min    |-> SeqMin(times),
         max    |-> SeqMax(times),
         stddev |-> IF Len(times) > 1 THEN Stdev(times) ELSE 0,
         result |-> IF trials = <<>> THEN initial ELSE trials[Len(trials)].output]

benchmark_primes(trials) == TrialStats(trials, 0)

benchmark_pi_estimation(trials) == TrialStats(trials, 0)

benchmark_hashing(trials) == TrialStats(trials, <<>>)

benchmark_memory(trials) == TrialStats(trials, 0)

(***************************************************************************)
(* The result store.                                                       *)
(***************************************************************************)
\* round(x, 4) of a duration of x ticks, in units of 0.0001 s
Round4(x) == ((2 * x) + Resolution) \div (2 * Resolution)

\* json.dumps(result) + "\n"
Dumps(result) == [json |-> result]

\* line.strip() is truthy
NotBlank(line) == "blank" \notin DOMAIN line

\* json.loads(line) raises json.JSONDecodeError
LoadsRaises(line) == "json" \notin DOMAIN line

\* json.loads(line)
Loads(line) == line.json

\* the dict log_results builds (lines 207-235)
ResultRecord(name, p_stats, pi_st, h_stats, m_stats) ==
    LET core ==
            [system_name   |-> name,
             primes_median |-> Round4(p_stats.median),
             primes_min    |-> Round4(p_stats.min),
             primes_max    |-> Round4(p_stats.max),
             primes_stddev |-> Round4(p_stats.stddev),
             pi_median     |-> Round4(pi_st.median),
             pi_min        |-> Round4(pi_st.min),
             pi_max        |-> Round4(pi_st.max),
             pi_stddev     |-> Round4(pi_st.stddev),
             hash_median   |-> Round4(h_stats.median),
             hash_min      |-> Round4(h_stats.min),
             hash_max      |-> Round4(h_stats.max),
             hash_stddev   |-> Round4(h_stats.stddev)]
    IN  IF "median" \in DOMAIN m_stats
        THEN core @@ [memory_median |-> Round4(m_stats.median),
                      memory_min    |-> Round4(m_stats.min),
                      memory_max    |-> Round4(m_stats.max),
                      memory_stddev |-> Round4(m_stats.stddev)]
        ELSE core

\* mutant of AppendLine: the file is opened with "w"
AppendLineTruncating(lines, line) == <<line>>

\* the file after open(RESULTS_FILE, "a") and one f.write of a whole line
AppendLine(lines, line) == Append(lines, line)

\* log_results: the file it leaves
log_results(lines, name, p_stats, pi_st, h_stats, m_stats) ==
    AppendLine(lines, Dumps(ResultRecord(name, p_stats, pi_st, h_stats, m_stats)))

RECURSIVE ParseLines(_)
ParseLines(lines) ==
    IF lines = <<>> THEN <<>>
    ELSE IF NotBlank(Head(lines)) THEN <<Loads(Head(lines))>> \o ParseLines(Tail(lines))
    ELSE ParseLines(Tail(lines))

\* load_results: [raised, results].  The first line that is not blank and that
\* json.loads rejects ends the call with JSONDecodeError.
load_results(exists, lines) ==
    IF ~exists THEN [raised |-> "none", results |-> <<>>]
    ELSE IF \E i \in 1..Len(lines) : NotBlank(lines[i]) /\ LoadsRaises(lines[i])
    THEN [raised |-> "JSONDecodeError", results |-> <<>>]
    ELSE [raised |-> "none", results |-> ParseLines(lines)]

\* mutant of NextFree: the first suffix is taken without looking
NextFreeNoLoop(base_name, counter, existing_names) == FormatName(base_name, counter)

\* get_unique_system_name, after load_results: lines 253-263
RECURSIVE NextFree(_, _, _)
NextFree(base_name, counter, existing_names) ==
    IF FormatName(base_name, counter) \in existing_names
    THEN NextFree(base_name, counter + 1, existing_names)
    ELSE FormatName(base_name, counter)

ExistingNames(results) == {results[i].system_name : i \in 1..Len(results)}

\* mutant of get_unique_system_name: the name is used as typed
KeepSystemName(base_name, results) == base_name

get_unique_system_name(base_name, results) ==
    LET existing_names == ExistingNames(results)
    IN  IF base_name \notin existing_names THEN base_name
        ELSE NextFree(base_name, 2, existing_names)

\* mutant of FilterOut: only the first record of the name is dropped
RECURSIVE FilterOutFirst(_, _)
FilterOutFirst(results, name) ==
    IF results = <<>> THEN <<>>
    ELSE IF Head(results).system_name # name
         THEN <<Head(results)>> \o FilterOutFirst(Tail(results), name)
         ELSE Tail(results)

\* [r for r in results if r['system_name'] != system_name]
RECURSIVE FilterOut(_, _)
FilterOut(results, name) ==
    IF results = <<>> THEN <<>>
    ELSE IF Head(results).system_name # name
         THEN <<Head(results)>> \o FilterOut(Tail(results), name)
         ELSE FilterOut(Tail(results), name)

\* the file after open(RESULTS_FILE, "w") and one line written per result
RewriteFile(results) == [i \in 1..Len(results) |-> Dumps(results[i])]

(***************************************************************************)
(* show_comparison_and_history.                                            *)
(***************************************************************************)
Frac(n, d) == [num |-> n, den |-> d]

\* a fraction with a positive denominator compared with a whole number
FracLess(f, k) == f.num < k * f.den

FracGreater(f, k) == f.num > k * f.den

Abs(n) == IF n < 0 THEN -n ELSE n

MedianKey(workload) ==
    CASE workload = "primes" -> "primes_median"
      [] workload = "pi"     -> "pi_median"
      [] workload = "hash"   -> "hash_median"
      [] workload = "memory" -> "memory_median"

\* "faster" / "slower": lines 388-393, 398-401, 406-409, 415-418
DeltaStatus(diff) == IF FracLess(diff, 0) THEN "faster" ELSE "slower"

\* One comparison line (lines 387-394 for primes): the difference in percent
\* ((current - previous) / previous) * 100, its status, and the abs() printed.
DeltaLine(workload, previous, current) ==
    LET key  == MedianKey(workload)
        diff == Frac((current[key] - previous[key]) * 100, previous[key])
    IN  [kind     |-> "delta",
         workload |-> workload,
         median   |-> current[key],
         diff     |-> diff,
         shown    |-> Frac(Abs(diff.num), diff.den),
         status   |-> DeltaStatus(diff)]

\* The comparisons in the order the code makes them; [raised, lines].  A
\* missing key raises KeyError, a previous median of 0 ZeroDivisionError, and
\* the lines printed before it stay printed.
RECURSIVE DeltaLines(_, _, _)
DeltaLines(workloads, previous, current) ==
    IF workloads = <<>> THEN [raised |-> "none", lines |-> <<>>]
    ELSE LET key == MedianKey(Head(workloads))
         IN  IF key \notin DOMAIN current \/ key \notin DOMAIN previous
             THEN [raised |-> "KeyError", lines |-> <<>>]
             ELSE IF previous[key] = 0
             THEN [raised |-> "ZeroDivisionError", lines |-> <<>>]
             ELSE LET rest == DeltaLines(Tail(workloads), previous, current)
                  IN  [raised |-> rest.raised,
                       lines  |-> <<DeltaLine(Head(workloads), previous, current)>>
                                      \o rest.lines]

\* lines 385-419: nothing is compared when previous has the old format
CompareToPrevious(previous, current) ==
    IF "primes_median" \in DOMAIN previous
    THEN LET core == DeltaLines(<<"primes", "pi", "hash">>, previous, current)
         IN  IF core.raised # "none" THEN core
             ELSE IF "memory_median" \in DOMAIN previous /\ "memory_median" \in DOMAIN current
             THEN LET mem == DeltaLines(<<"memory">>, previous, current)
                  IN  [raised |-> mem.raised, lines |-> core.lines \o mem.lines]
             ELSE core
    ELSE [raised |-> "none", lines |-> <<>>]

\* [r['primes_median'] for r in results if 'primes_median' in r]
RECURSIVE PrimesMedians(_)
PrimesMedians(results) ==
    IF results = <<>> THEN <<>>
    ELSE IF "primes_median" \in DOMAIN Head(results)
         THEN <<Head(results).primes_median>> \o PrimesMedians(Tail(results))
         ELSE PrimesMedians(Tail(results))

\* mutant of IndexOf: the position of the last element equal to v
IndexOfLast(seq, v) == (CHOOSE i \in 1..Len(seq) : seq[i] = v /\ \A j \in (i + 1)..Len(seq) : seq[j] # v) - 1

\* list.index(v): 0-based position of the first element equal to v
IndexOf(seq, v) == (CHOOSE i \in 1..Len(seq) : seq[i] = v /\ \A j \in 1..(i - 1) : seq[j] # v) - 1

\* lines 431-434
RankLine(results, current) ==
    LET all_primes_times == SortAsc(PrimesMedians(results))
    IN  [kind  |-> "rank",
         rank  |-> IndexOf(all_primes_times, current.primes_median) + 1,
         total |-> Len(all_primes_times)]

\* line 439: (avg_stddev / avg_median) * 100 if avg_median > 0 else 0
VariancePct(p_stats, pi_st, h_stats) ==
    LET avg_stddev == Frac(p_stats.stddev + pi_st.stddev + h_stats.stddev, 3)
        avg_median == Frac(p_stats.median + pi_st.median + h_stats.median, 3)
    IN  IF FracGreater(avg_median, 0)
        THEN Frac(avg_stddev.num * avg_median.den * 100, avg_stddev.den * avg_median.num)
        ELSE Frac(0, 1)

\* mutant of Consistency: the bounds are taken on the other side
ConsistencyInclusive(variance_pct) ==
    IF ~FracGreater(variance_pct, 5) THEN "consistent"
    ELSE IF ~FracLess(variance_pct, 10) THEN "high variance"
    ELSE "acceptable"

\* lines 441-446
Consistency(variance_pct) ==
    IF FracLess(variance_pct, 5) THEN "consistent"
    ELSE IF FracGreater(variance_pct, 10) THEN "high variance"
    ELSE "acceptable"

ConsistencyLine(p_stats, pi_st, h_stats) ==
    LET variance_pct == VariancePct(p_stats, pi_st, h_stats)
    IN  [kind         |-> "consistency",
         variance_pct |-> variance_pct,
         class        |-> Consistency(variance_pct)]

\* show_comparison_and_history: [raised, lines]
show_comparison_and_history(exists, lines, p_stats, pi_st, h_stats) ==
    LET loaded == load_results(exists, lines)
        results == loaded.results
    IN  IF loaded.raised # "none" THEN [raised |-> loaded.raised, lines |-> <<>>]
        ELSE IF Len(results) < 2 THEN [raised |-> "none", lines |-> <<[kind |-> "no_previous"]>>]
        ELSE LET previous == results[Len(results) - 1]
                 current  == results[Len(results)]
                 deltas   == CompareToPrevious(previous, current)
                 total    == <<[kind |-> "total_runs", total |-> Len(results)]>>
             IN  IF deltas.raised # "none" THEN deltas
                 ELSE IF "primes_median" \in DOMAIN current
                 THEN [raised |-> "none",
                       lines  |-> deltas.lines \o total
                                    \o <<RankLine(results, current),
                                         ConsistencyLine(p_stats, pi_st, h_stats)>>]
                 ELSE [raised |-> "none", lines |-> deltas.lines \o total]

(***************************************************************************)
(* Inputs: what the operator types and what the timed runs produce.        *)
(***************************************************************************)
\* answers to "Enter system name: "
NameInputs == {<<"x">>, <<"x", " ">>, <<"y">>, <<" ">>}

\* answers to "Enter system name to delete (or 'cancel' to abort): "
DeleteInputs ==
    {<<"x">>, <<" ", "y">>, <<"x", "_", "2">>, <<"z">>, <<"C", "a", "n", "c", "e", "l">>}

\* answers to "Continue? (y/n): "
ConfirmInputs == {<<"y">>, <<"Y", " ">>, <<"n">>}

\* runs=3, runs=3, runs=5, runs=3: the defaults run_benchmark relies on
PrimesRuns == 3
PiRuns == 3
HashRuns == 5
MemoryRuns == 3

\* durations of one timed run, in ticks
PrimesDurations == {8}
PiDurations == {6}
HashDurations == {7}
MemoryDurations == {5}

\* values one timed run computes: a right one and a wrong one
PrimeCounts == {78498, 78497}
\* pi estimates in hundredths
PiEstimates == {314, 300}
HashSamples ==
    {<<"0", "1", "2", "3", "4", "5", "a", "b", "e", "f">>,
     <<"0", "1", "2", "3", "4", "5", "a", "b", "G">>}
MemorySums == {10, 0}

Trial(d, o) == [duration |-> d, output |-> o]

\* every sequence of n timed runs
TrialSeqs(n, durations, outputs) ==
    [1..n -> {Trial(d, o) : d \in durations, o \in outputs}]

\* a local of run_benchmark that holds nothing (yet)
Unset == [unset |-> TRUE]

(***************************************************************************)
(* Validation of the representative results (lines 481, 496, 511, 526).    *)
(***************************************************************************)
ExpectedPrimeCount == 78498
PiLow == 313
PiHigh == 315
HashLength == 10
HexDigits ==
    {"0", "1", "2", "3", "4", "5", "6", "7", "8", "9", "a", "b", "c", "d", "e", "f"}

PrimesValid(prime_count) == prime_count = ExpectedPrimeCount

PiValid(pi_val) == PiLow <= pi_val /\ pi_val <= PiHigh

HashValid(hash_sample) ==
    Len(hash_sample) = HashLength /\ \A i \in 1..Len(hash_sample) : hash_sample[i] \in HexDigits

MemoryValid(memory_sum) == memory_sum > 0

\* the validation line a workload prints, and the warnings after it
ValidationLine(workload, ok) == [kind |-> "validation", workload |-> workload, ok |-> ok]

Warned(workload, ok) == IF ok THEN warnings ELSE warnings \cup {workload}

(***************************************************************************)
(* The handlers of the menu loop.                                          *)
(***************************************************************************)
Init ==
    /\ file_exists = FALSE
    /\ file = <<>>
    /\ pc = "menu"
    /\ system_name = <<>>
    /\ primes_stats = Unset
    /\ pi_stats = Unset
    /\ hash_stats = Unset
    /\ memory_stats = Unset
    /\ warnings = {}
    /\ printed = <<>>
    /\ raised = "none"

\* run_benchmark returns: its locals are gone
SessionOver ==
    /\ system_name' = <<>>
    /\ primes_stats' = Unset
    /\ pi_stats' = Unset
    /\ hash_stats' = Unset
    /\ memory_stats' = Unset
    /\ warnings' = {}

\* an uncaught exception ends the program with a traceback
Crash(exception) ==
    /\ pc' = "crashed"
    /\ raised' = exception
    /\ printed' = <<[kind |-> "traceback", exception |-> exception]>>

\* run_benchmark, lines 452-462: read the name, resolve it against the store
EnterSystemName(input) ==
    /\ pc = "menu"
    /\ Len(file) < MaxLines
    /\ LET name   == Strip(input)
           loaded == load_results(file_exists, file)
       IN  IF name = <<>>
           THEN /\ printed' = <<[kind |-> "empty_name"]>>
                /\ UNCHANGED <<file_exists, file, pc, session, raised>>
           ELSE IF loaded.raised # "none"
           THEN /\ Crash(loaded.raised)
                /\ UNCHANGED <<file_exists, file, session>>
           ELSE LET unique_name == get_unique_system_name(name, loaded.results)
                IN  /\ system_name' = unique_name
                    /\ printed' = IF unique_name # name
                                  THEN <<[kind |-> "renamed", from |-> name, to |-> unique_name]>>
                                  ELSE <<>>
                    /\ pc' = "load_check"
                    /\ UNCHANGED <<file_exists, file, primes_stats, pi_stats, hash_stats,
                                   memory_stats, warnings, raised>>

\* run_benchmark, lines 465-472: check_system_load() lets the session go on or
\* the operator aborts it
CheckSystemLoad(proceed) ==
    /\ pc = "load_check"
    /\ IF proceed
       THEN /\ pc' = "primes"
            /\ printed' = <<[kind |-> "running", name |-> system_name]>>
            /\ UNCHANGED <<file_exists, file, session, raised>>
       ELSE /\ pc' = "menu"
            /\ printed' = <<[kind |-> "aborted"]>>
            /\ SessionOver
            /\ UNCHANGED <<file_exists, file, raised>>

\* mutant of RunPrimes: a wrong prime count ends the session
RunPrimesAborting(trials) ==
    /\ pc = "primes"
    /\ LET stats == benchmark_primes(trials)
           ok    == PrimesValid(stats.result)
       IN  IF ok
           THEN /\ primes_stats' = stats
                /\ pc' = "pi"
                /\ printed' = <<ValidationLine("primes", ok)>>
                /\ UNCHANGED <<file_exists, file, system_name, pi_stats, hash_stats,
                               memory_stats, warnings, raised>>
           ELSE /\ pc' = "menu"
                /\ printed' = <<ValidationLine("primes", ok)>>
                /\ SessionOver
                /\ UNCHANGED <<file_exists, file, raised>>

\* run_benchmark, lines 474-487
RunPrimes(trials) ==
    /\ pc = "primes"
    /\ LET stats == benchmark_primes(trials)
           ok    == PrimesValid(stats.result)
       IN  /\ primes_stats' = stats
           /\ warnings' = Warned("primes", ok)
           /\ printed' = <<ValidationLine("primes", ok)>>
    /\ pc' = "pi"
    /\ UNCHANGED <<file_exists, file, system_name, pi_stats, hash_stats, memory_stats, raised>>

\* mutant of RunPi: the session goes on with the memory benchmark
RunPiSkippingHash(trials) ==
    /\ pc = "pi"
    /\ LET stats == benchmark_pi_estimation(trials)
           ok    == PiValid(stats.result)
       IN  /\ pi_stats' = stats
           /\ warnings' = Warned("pi", ok)
           /\ printed' = <<ValidationLine("pi", ok)>>
    /\ pc' = "memory"
    /\ UNCHANGED <<file_exists, file, system_name, primes_stats, hash_stats, memory_stats, raised>>

\* run_benchmark, lines 489-502
RunPi(trials) ==
    /\ pc = "pi"
    /\ LET stats == benchmark_pi_estimation(trials)
           ok    == PiValid(stats.result)
       IN  /\ pi_stats' = stats
           /\ warnings' = Warned("pi", ok)
           /\ printed' = <<ValidationLine("pi", ok)>>
    /\ pc' = "hash"
    /\ UNCHANGED <<file_exists, file, system_name, primes_stats, hash_stats, memory_stats, raised>>

\* run_benchmark, lines 504-517
RunHash(trials) ==
    /\ pc = "hash"
    /\ LET stats == benchmark_hashing(trials)
           ok    == HashValid(stats.result)
       IN  /\ hash_stats' = stats
           /\ warnings' = Warned("hash", ok)
           /\ printed' = <<ValidationLine("hash", ok)>>
    /\ pc' = "memory"
    /\ UNCHANGED <<file_exists, file, system_name, primes_stats, pi_stats, memory_stats, raised>>

\* run_benchmark, lines 519-532
RunMemory(trials) ==
    /\ pc = "memory"
    /\ LET stats == benchmark_memory(trials)
           ok    == MemoryValid(stats.result)
       IN  /\ memory_stats' = stats
           /\ warnings' = Warned("memory", ok)
           /\ printed' = <<ValidationLine("memory", ok)>>
    /\ pc' = "log"
    /\ UNCHANGED <<file_exists, file, system_name, primes_stats, pi_stats, hash_stats, raised>>

\* run_benchmark, lines 534-535
LogResults ==
    /\ pc = "log"
    /\ file' = log_results(file, system_name, primes_stats, pi_stats, hash_stats, memory_stats)
    /\ file_exists' = TRUE
    /\ printed' = <<[kind |-> "saved"]>>
    /\ pc' = "compare"
    /\ UNCHANGED <<session, raised>>

\* run_benchmark, line 538, and the return to the menu
ShowComparison ==
    /\ pc = "compare"
    /\ LET shown == show_comparison_and_history(file_exists, file, primes_stats,
                                                pi_stats, hash_stats)
       IN  IF shown.raised # "none"
           THEN /\ pc' = "crashed"
                /\ raised' = shown.raised
                /\ printed' = shown.lines
                                \o <<[kind |-> "traceback", exception |-> shown.raised]>>
                /\ UNCHANGED <<file_exists, file, session>>
           ELSE /\ pc' = "menu"
                /\ printed' = shown.lines
                /\ SessionOver
                /\ UNCHANGED <<file_exists, file, raised>>

\* delete_by_system_name, lines 321-366
DeleteBySystemName(input, answer) ==
    /\ pc = "menu"
    /\ LET loaded  == load_results(file_exists, file)
           results == loaded.results
           name    == Strip(input)
           filtered_results == FilterOut(results, name)
           deleted_count    == Len(results) - Len(filtered_results)
           confirm == Lower(Strip(answer))
       IN  IF loaded.raised # "none"
           THEN /\ Crash(loaded.raised)
                /\ UNCHANGED <<file_exists, file, session>>
           ELSE IF results = <<>>
           THEN /\ printed' = <<[kind |-> "no_results"]>>
                /\ UNCHANGED <<file_exists, file, pc, session, raised>>
           ELSE IF Lower(name) = <<"c", "a", "n", "c", "e", "l">>
           THEN /\ printed' = <<[kind |-> "cancelled"]>>
                /\ UNCHANGED <<file_exists, file, pc, session, raised>>
           ELSE IF Len(filtered_results) = Len(results)
           THEN /\ printed' = <<[kind |-> "no_entries", name |-> name]>>
                /\ UNCHANGED <<file_exists, file, pc, session, raised>>
           ELSE IF confirm # <<"y">>
           THEN /\ printed' = <<[kind |-> "cancelled"]>>
                /\ UNCHANGED <<file_exists, file, pc, session, raised>>
           ELSE /\ file' = RewriteFile(filtered_results)
                /\ printed' = <<[kind |-> "deleted", name |-> name, count |-> deleted_count]>>
                /\ UNCHANGED <<file_exists, pc, session, raised>>

Next ==
    \/ \E input \in NameInputs : EnterSystemName(input)
    \/ \E proceed \in BOOLEAN : CheckSystemLoad(proceed)
    \/ \E trials \in TrialSeqs(PrimesRuns, PrimesDurations, PrimeCounts) : RunPrimes(trials)
    \/ \E trials \in TrialSeqs(PiRuns, PiDurations, PiEstimates) : RunPi(trials)
    \/ \E trials \in TrialSeqs(HashRuns, HashDurations, HashSamples) : RunHash(trials)
    \/ \E trials \in TrialSeqs(MemoryRuns, MemoryDurations, MemorySums) : RunMemory(trials)
    \/ LogResults
    \/ ShowComparison
    \/ \E input \in DeleteInputs, answer \in ConfirmInputs : DeleteBySystemName(input, answer)

\* the program started with no results file
Spec == Init /\ [][Next]_vars

(***************************************************************************)
(* Starting from a results file that already exists: written by earlier    *)
(* runs (of this or an older version of the program), copied or edited.    *)
(***************************************************************************)
\* n timed runs that all took d ticks and computed o
ConstTrials(n, d, o) == [i \in 1..n |-> Trial(d, o)]

\* the record a session writes whose runs took p, q, h and m ticks
SampleRecord(name, p, q, h, m) ==
    ResultRecord(name,
                 benchmark_primes(ConstTrials(PrimesRuns, p, ExpectedPrimeCount)),
                 benchmark_pi_estimation(ConstTrials(PiRuns, q, PiLow)),
                 benchmark_hashing(ConstTrials(HashRuns, h, <<>>)),
                 benchmark_memory(ConstTrials(MemoryRuns, m, 1)))

\* the same record written before the memory benchmark existed (memory_stats=None)
SampleRecordNoMemory(name, p, q, h) ==
    ResultRecord(name,
                 benchmark_primes(ConstTrials(PrimesRuns, p, ExpectedPrimeCount)),
                 benchmark_pi_estimation(ConstTrials(PiRuns, q, PiLow)),
                 benchmark_hashing(ConstTrials(HashRuns, h, <<>>)),
                 Unset)

\* a record of the old format: one time per benchmark (display_stats, lines 302-315)
LegacyRecord(name) ==
    [system_name |-> name, primes_time |-> 4, pi_time |-> 2, hash_time |-> 2]

BlankLine == [blank |-> TRUE]

\* a line cut short while it was written
GarbageLine == [garbage |-> <<"{", "t", "i", "m", "e">>]

StoreLines ==
    {Dumps(SampleRecord(<<"x">>, 8, 6, 7, 5)),
     Dumps(SampleRecord(<<"x", "_", "2">>, 9, 6, 7, 5)),
     Dumps(SampleRecord(<<"y">>, 8, 6, 7, 5)),
     Dumps(LegacyRecord(<<"y">>)),
     BlankLine,
     GarbageLine}

FilesOf(lines, longest) == UNION {[1..n -> lines] : n \in 0..longest}

InitStore ==
    /\ file_exists \in BOOLEAN
    /\ file \in FilesOf(StoreLines, MaxInitLines)
    /\ file_exists = FALSE => file = <<>>
    /\ pc = "menu"
    /\ system_name = <<>>
    /\ primes_stats = Unset
    /\ pi_stats = Unset
    /\ hash_stats = Unset
    /\ memory_stats = Unset
    /\ warnings = {}
    /\ printed = <<>>
    /\ raised = "none"

\* One statement of run_benchmark follows the other: a session that stands
\* before a benchmark, before log_results or before the comparison goes on.
SessionStep ==
    \/ \E trials \in TrialSeqs(PrimesRuns, PrimesDurations, PrimeCounts) : RunPrimes(trials)
    \/ \E trials \in TrialSeqs(PiRuns, PiDurations, PiEstimates) : RunPi(trials)
    \/ \E trials \in TrialSeqs(HashRuns, HashDurations, HashSamples) : RunHash(trials)
    \/ \E trials \in TrialSeqs(MemoryRuns, MemoryDurations, MemorySums) : RunMemory(trials)
    \/ LogResults
    \/ ShowComparison

\* The same steps told by pc alone: at these places every step of the program
\* is a step of the session, and it moves pc (SameSteps).
Running == {"primes", "pi", "hash", "memory", "log", "compare"}

SessionAdvance == pc \in Running /\ pc' \in (Running \cup {"menu", "crashed"}) \ {pc}

SameSteps == [][SessionStep <=> SessionAdvance]_vars

\* the program started with no results file, and a session that runs goes on
FairSpec == Init /\ [][Next]_vars /\ WF_pc(SessionAdvance)

\* the program started on an existing results file
SpecStore == InitStore /\ [][Next]_vars

(***************************************************************************)
(* The comparison step on its own: run_benchmark stands right after        *)
(* log_results (line 534) with the statistics of the session in its locals *)
(* and the record of the session as the last line of the file.             *)
(***************************************************************************)
\* timed runs with the given durations that all computed o
TrialsOf(times, o) == [i \in 1..Len(times) |-> Trial(times[i], o)]

ComparePrimesTimes ==
    {<<0, 0, 0>>, <<1, 1, 1>>, <<9, 10, 11>>, <<24, 24, 24>>, <<2, 10, 30>>}

ComparePiTimes == {<<0, 0, 0>>, <<5, 5, 5>>}

CompareHashTimes == {<<0, 0, 0, 0, 0>>, <<5, 5, 5, 5, 5>>, <<10, 10, 10, 10, 10>>}

CompareMemoryTimes == {<<0, 0, 0>>, <<6, 6, 6>>}

\* the lines the file may hold before the record of the session
CompareLines ==
    {Dumps(SampleRecord(<<"x">>, 30, 6, 7, 5)),
     Dumps(SampleRecord(<<"y">>, 24, 5, 15, 6)),
     Dumps(SampleRecord(<<"y">>, 3, 0, 7, 5)),
     Dumps(SampleRecord(<<"x">>, 0, 6, 7, 5)),
     Dumps(SampleRecord(<<"z">>, 30, 6, 0, 5)),
     Dumps(SampleRecord(<<"z">>, 45, 6, 7, 0)),
     Dumps(SampleRecordNoMemory(<<"x">>, 30, 6, 7)),
     Dumps(LegacyRecord(<<"y">>)),
     BlankLine}

InitCompare ==
    /\ file_exists = TRUE
    /\ system_name \in {<<"x">>, <<"x", "_", "2">>}
    /\ primes_stats \in {benchmark_primes(TrialsOf(t, ExpectedPrimeCount)) : t \in ComparePrimesTimes}
    /\ pi_stats \in {benchmark_pi_estimation(TrialsOf(t, PiLow)) : t \in ComparePiTimes}
    /\ hash_stats \in {benchmark_hashing(TrialsOf(t, <<>>)) : t \in CompareHashTimes}
    /\ memory_stats \in {benchmark_memory(TrialsOf(t, 1)) : t \in CompareMemoryTimes}
    /\ \E before \in FilesOf(CompareLines, MaxInitLines) :
           file = log_results(before, system_name, primes_stats, pi_stats,
                              hash_stats, memory_stats)
    /\ pc = "compare"
    /\ warnings = {}
    /\ printed = <<[kind |-> "saved"]>>
    /\ raised = "none"

\* the comparison step from every such state
SpecCompare == InitCompare /\ [][ShowComparison]_vars

(***************************************************************************)
(* One benchmark function on its own: run_benchmark stands before one of   *)
(* the four calls (lines 476, 491, 506, 521), the benchmarks before it     *)
(* have run, and the function is called with any number of runs >= 1 and   *)
(* any durations, zero included.                                           *)
(***************************************************************************)
\* the four benchmarks, named as the keys of a record name them
Workloads == {"primes", "pi", "hash", "memory"}

\* the workloads that have run when the session stands at a place
RanBefore(at) ==
    CASE at \in {"menu", "load_check", "primes"} -> {}
      [] at = "pi"                  -> {"primes"}
      [] at = "hash"                -> {"primes", "pi"}
      [] at = "memory"              -> {"primes", "pi", "hash"}
      [] at \in {"log", "compare"}  -> Workloads

\* ticks one timed run can take
StatsDurations == {0, 2, 5}

\* the statistics a benchmark before the place at has left, nothing otherwise
RanSample(w, at, stats) == IF w \in RanBefore(at) THEN stats ELSE Unset

InitStats ==
    /\ file_exists = FALSE
    /\ file = <<>>
    /\ pc \in Workloads
    /\ system_name = <<"x">>
    /\ primes_stats = RanSample("primes", pc,
                          benchmark_primes(ConstTrials(PrimesRuns, 8, ExpectedPrimeCount)))
    /\ pi_stats = RanSample("pi", pc, benchmark_pi_estimation(ConstTrials(PiRuns, 6, PiLow)))
    /\ hash_stats = RanSample("hash", pc,
                        benchmark_hashing(ConstTrials(HashRuns, 7, <<"0", "1", "2", "3", "4",
                                                                     "5", "a", "b", "e", "f">>)))
    /\ memory_stats = Unset
    /\ warnings = {}
    /\ printed = <<>>
    /\ raised = "none"

\* the call the session stands before, and no further
BenchmarkCall ==
    \/ \E n \in 1..MaxRuns : \E trials \in TrialSeqs(n, StatsDurations, PrimeCounts) :
           printed = <<>> /\ RunPrimes(trials)
    \/ \E n \in 1..MaxRuns : \E trials \in TrialSeqs(n, StatsDurations, PiEstimates) :
           printed = <<>> /\ RunPi(trials)
    \/ \E n \in 1..MaxRuns : \E trials \in TrialSeqs(n, StatsDurations, HashSamples) :
           printed = <<>> /\ RunHash(trials)
    \/ \E n \in 1..MaxRuns : \E trials \in TrialSeqs(n, StatsDurations, MemorySums) :
           printed = <<>> /\ RunMemory(trials)

SpecStats == InitStats /\ [][BenchmarkCall]_vars

(***************************************************************************)
(* Properties.                                                             *)
(***************************************************************************)
\* the records the file holds, as load_results returns them
Stored(exists, lines) == load_results(exists, lines).results

Loadable(exists, lines) == load_results(exists, lines).raised = "none"

\* the lines of one kind among those just printed
Lines(output, kind) == {output[i] : i \in {j \in 1..Len(output) : output[j].kind = kind}}

CancelWord == <<"c", "a", "n", "c", "e", "l">>

\* S with exactly the records labelled L removed, the others in their order
Without(S, L) == SelectSeq(S, LAMBDA r : r.system_name # L)

Labelled(S, L) == {i \in 1..Len(S) : S[i].system_name = L}

\* what a delete of the label typed as input, answered with answer, must do
DeleteDone(input, answer) ==
    LET L == Strip(input)
        S == Stored(file_exists, file)
    IN  (Loadable(file_exists, file) /\ Lower(L) # CancelWord) =>
            /\ Labelled(S, L) = {} =>
                   /\ file' = file /\ file_exists' = file_exists
                   /\ Lines(printed', "deleted") = {}
                   /\ Lines(printed', "no_entries") \cup Lines(printed', "no_results") # {}
            /\ (Labelled(S, L) # {} /\ Lower(Strip(answer)) = <<"y">>) =>
                   /\ Loadable(file_exists', file')
                   /\ Stored(file_exists', file') = Without(S, L)
                   /\ printed' = <<[kind |-> "deleted", name |-> L,
                                    count |-> Cardinality(Labelled(S, L))]>>

\* C1: a confirmed delete of a label leaves the store with exactly the records
\* of that label removed, the others unchanged and in order, and reports how
\* many it removed; when no record has the label the store is untouched and
\* nothing is reported as deleted.
C1_DeleteRemovesLabel ==
    [][\A input \in DeleteInputs, answer \in ConfirmInputs :
           DeleteBySystemName(input, answer) => DeleteDone(input, answer)]_vars

\* two records of one label were deleted and another record stayed
C1_Witness ==
    /\ pc = "menu"
    /\ printed = <<[kind |-> "deleted", name |-> <<"x">>, count |-> 2]>>
    /\ Len(Stored(file_exists, file)) >= 1

\* C2: appending a record and loading yields the records stored before,
\* unchanged and in order, followed by the new record; the lines already in the
\* file are not rewritten; this holds too when the file does not exist yet.
C2_AppendThenLoad ==
    [][LogResults =>
           LET r == ResultRecord(system_name, primes_stats, pi_stats, hash_stats, memory_stats)
           IN  /\ Loadable(file_exists', file')
               /\ Stored(file_exists', file') = Stored(file_exists, file) \o <<r>>
               /\ SubSeq(file', 1, Len(file)) = file
               /\ Len(file') = Len(file) + 1]_vars

\* a record was appended after two others, one of the old format
C2_Witness ==
    /\ pc = "compare"
    /\ Len(Stored(file_exists, file)) = 3
    /\ \E i \in 1..2 : "primes_median" \notin DOMAIN Stored(file_exists, file)[i]
    /\ Stored(file_exists, file)[3].system_name = system_name

\* the label L resolved against the labels E is r
Resolved(L, E, r) ==
    /\ r \notin E
    /\ IF L \notin E THEN r = L
       ELSE \E k \in 2..(Cardinality(E) + 2) :
                /\ r = L \o <<"_">> \o Digits(k)
                /\ \A j \in 2..(k - 1) : (L \o <<"_">> \o Digits(j)) \in E

\* C3: the resolver returns the requested label when no record has it, else
\* the label with "_k" appended for the smallest k >= 2 that no record has;
\* the result is never a label of the store.
C3_ResolveUnique ==
    [][\A input \in NameInputs :
           (EnterSystemName(input) /\ pc' = "load_check") =>
               Resolved(Strip(input), ExistingNames(Stored(file_exists, file)), system_name')]_vars

\* "x" was resolved to "x_2" while the store held "x" and "x_3"
C3_Witness ==
    /\ pc = "load_check"
    /\ system_name = <<"x", "_", "2">>
    /\ {<<"x">>, <<"x", "_", "3">>} \subseteq ExistingNames(Stored(file_exists, file))

InSession == {"load_check", "primes", "pi", "hash", "memory", "log"}

\* C4: from an empty store, after any sessions and deletes, no two records
\* share a system name, and the name a running session will append is the name
\* of no record.
C4_LabelsUnique ==
    LET S == Stored(file_exists, file)
    IN  /\ \A i, j \in 1..Len(S) : i # j => S[i].system_name # S[j].system_name
        /\ pc \in InSession => system_name \notin ExistingNames(S)

\* "x" was run twice, the first "x" deleted and "x" run again
C4_Witness ==
    /\ pc = "menu"
    /\ Len(Stored(file_exists, file)) = 2
    /\ Stored(file_exists, file)[1].system_name = <<"x", "_", "2">>
    /\ Stored(file_exists, file)[2].system_name = <<"x">>

\* C5 (as claimed): loading never fails on a malformed line.
C5_LoadNeverFails == raised # "JSONDecodeError"

\* C6 (as claimed): the comparison never ends in an arithmetic fault.
C6_ComparisonNeverFaults == raised # "ZeroDivisionError"


\* the comparison line of a workload with medians prev and cur is printed
DeltaReported(output, workload, prev, cur) ==
    \E line \in Lines(output, "delta") :
        /\ line.workload = workload
        /\ line.diff.den # 0
        /\ line.diff.num * prev = (cur - prev) * 100 * line.diff.den
        /\ line.shown.num * prev = Abs(cur - prev) * 100 * line.shown.den
        /\ line.status = IF cur < prev THEN "faster" ELSE "slower"

\* what the comparison must have printed for the store it ran on
DeltasReported(output) ==
    LET S == Stored(file_exists, file)
    IN  IF Len(S) < 2 THEN output = <<[kind |-> "no_previous"]>>
        ELSE LET previous == S[Len(S) - 1]
                 current  == S[Len(S)]
             IN  \A w \in Workloads :
                     (/\ MedianKey(w) \in DOMAIN previous
                      /\ MedianKey(w) \in DOMAIN current
                      /\ previous[MedianKey(w)] # 0)
                     => DeltaReported(output, w, previous[MedianKey(w)], current[MedianKey(w)])

\* C7 (as claimed): with two records or more the comparison reports, for every
\* workload in both the last record and the one before it, the difference in
\* percent of the medians, "faster" exactly when it is negative; with fewer
\* records it reports that there is no previous run and nothing else.
C7_PercentDelta == pc # "compare" => DeltasReported(printed)

\* the same for the comparisons that came to their end
DeltasRightWhenCompleted == pc = "menu" => DeltasReported(printed)

\* C8: the rank printed is 1 plus the number of records with a primes median
\* strictly below the current one (the first position of the current value in
\* the sorted medians), out of the records that have a primes median; it lies
\* in 1..total, and a comparison of two records or more that ends prints it.
C8_RankOfCurrent ==
    pc # "compare" =>
        LET S       == Stored(file_exists, file)
            current == S[Len(S)]
            T       == {i \in 1..Len(S) : "primes_median" \in DOMAIN S[i]}
        IN  /\ \A line \in Lines(printed, "rank") :
                   /\ line.total = Cardinality(T)
                   /\ line.rank = 1 + Cardinality({i \in T : S[i].primes_median < current.primes_median})
                   /\ 1 <= line.rank /\ line.rank <= line.total
            /\ (pc = "menu" /\ Len(S) >= 2) => Lines(printed, "rank") # {}

\* rank 2 of 3: one record is faster and one ties with the current run
C8_Witness ==
    /\ pc = "menu"
    /\ [kind |-> "rank", rank |-> 2, total |-> 3] \in Lines(printed, "rank")
    /\ LET S == Stored(file_exists, file)
       IN  \E i \in 1..(Len(S) - 1) : S[i].primes_median = S[Len(S)].primes_median

\* C9: the consistency printed follows from the stddev and the median of
\* primes, pi and hash alone: with v = avg stddev / avg median * 100 it is
\* "consistent" for v < 5, "high variance" for v > 10 and "acceptable" from 5
\* to 10, both included; with a zero average median v is 0 and it is
\* "consistent".
C9_Consistency ==
    [][ShowComparison =>
           LET sd == primes_stats.stddev + pi_stats.stddev + hash_stats.stddev
               md == primes_stats.median + pi_stats.median + hash_stats.median
           IN  \A line \in Lines(printed', "consistency") :
                   IF md = 0
                   THEN line.variance_pct.num = 0 /\ line.class = "consistent"
                   ELSE /\ line.variance_pct.num * md = 100 * sd * line.variance_pct.den
                        /\ line.class = "consistent" <=> 100 * sd < 5 * md
                        /\ line.class = "high variance" <=> 100 * sd > 10 * md
                        /\ line.class = "acceptable" <=> (5 * md <= 100 * sd /\ 100 * sd <= 10 * md)]_vars

\* a variance of exactly 5 percent was printed as acceptable
C9_Witness ==
    /\ pc = "menu"
    /\ \E line \in Lines(printed, "consistency") :
           /\ line.class = "acceptable"
           /\ line.variance_pct.num = 5 * line.variance_pct.den

AfterWorkload(at) ==
    CASE at = "primes" -> "pi"
      [] at = "pi"     -> "hash"
      [] at = "hash"   -> "memory"
      [] at = "memory" -> "log"

\* C10: whatever the four validations say, a session that has begun its
\* benchmarks goes from each benchmark to the next without touching the file,
\* then appends exactly one record, then runs the comparison, which writes
\* nothing; and a session that stands at a benchmark does run all of this and
\* comes to the end of the comparison.
C10_ValidationNeverAborts ==
    /\ [][(pc \in Workloads) => (pc' = AfterWorkload(pc) /\ file' = file)]_vars
    /\ [][(pc = "log") => (pc' = "compare" /\ Len(file') = Len(file) + 1)]_vars
    /\ [][(pc = "compare") => (pc' \in {"menu", "crashed"} /\ file' = file)]_vars
    /\ (pc \in Workloads) ~> (pc \in {"menu", "crashed"})

\* all four validations failed and the record of the session is in the file
C10_Witness ==
    /\ pc = "compare"
    /\ warnings = Workloads
    /\ Stored(file_exists, file)[Len(file)].system_name = system_name

\* the places of run_benchmark in the order of its statements, with the two
\* ways out of it (the operator's abort and an uncaught exception)
StepOrder ==
    {<<"menu", "load_check">>, <<"menu", "crashed">>,
     <<"load_check", "primes">>, <<"load_check", "menu">>,
     <<"primes", "pi">>, <<"pi", "hash">>, <<"hash", "memory">>,
     <<"memory", "log">>, <<"log", "compare">>,
     <<"compare", "menu">>, <<"compare", "crashed">>}

\* the workloads whose statistics the session holds
Ran ==
    {w \in Workloads : CASE w = "primes" -> primes_stats # Unset
                         [] w = "pi"     -> pi_stats # Unset
                         [] w = "hash"   -> hash_stats # Unset
                         [] w = "memory" -> memory_stats # Unset}

\* the step gives the session its label
LabelResolved == system_name' # system_name /\ system_name' # <<>>

\* the validation line of the workload the step has just run, told from the
\* statistics the step left behind
ValidatedAfterRun(w) ==
    CASE w = "primes" -> ValidationLine(w, PrimesValid(primes_stats'.result))
      [] w = "pi"     -> ValidationLine(w, PiValid(pi_stats'.result))
      [] w = "hash"   -> ValidationLine(w, HashValid(hash_stats'.result))
      [] w = "memory" -> ValidationLine(w, MemoryValid(memory_stats'.result))

StatsOf(trials, stats) ==
    LET n == Len(trials)
        D == {trials[i].duration : i \in 1..n}
    IN  /\ stats.min <= stats.median /\ stats.median <= stats.max
        /\ stats.min \in D /\ \A d \in D : stats.min <= d
        /\ stats.max \in D /\ \A d \in D : stats.max >= d
        /\ n = 1 => (stats.stddev = 0 /\ stats.min = stats.median /\ stats.median = stats.max)
        /\ stats.result = trials[n].output

\* C12: for every number n >= 1 of timed runs and all non-negative durations,
\* the statistics a benchmark function returns have min <= median <= max, min
\* and max are the smallest and the largest of the n durations, with n = 1 the
\* stddev is 0 and min = median = max, and the result is the value the last
\* run computed.
C12_TrialStatistics ==
    [][\A n \in 1..MaxRuns :
           /\ (pc = "primes") =>
                  \A trials \in TrialSeqs(n, StatsDurations, PrimeCounts) :
                      RunPrimes(trials) => StatsOf(trials, primes_stats')
           /\ (pc = "pi") =>
                  \A trials \in TrialSeqs(n, StatsDurations, PiEstimates) :
                      RunPi(trials) => StatsOf(trials, pi_stats')
           /\ (pc = "hash") =>
                  \A trials \in TrialSeqs(n, StatsDurations, HashSamples) :
                      RunHash(trials) => StatsOf(trials, hash_stats')
           /\ (pc = "memory") =>
                  \A trials \in TrialSeqs(n, StatsDurations, MemorySums) :
                      RunMemory(trials) => StatsOf(trials, memory_stats')]_vars

\* the hashing benchmark ran with three durations that all differ, and its last
\* run computed the sample that fails the validation
C12_Witness ==
    /\ pc = "memory"
    /\ hash_stats # Unset
    /\ hash_stats.min = 0 /\ hash_stats.median = 2 /\ hash_stats.max = 5
    /\ hash_stats.stddev > 0
    /\ printed = <<ValidationLine("hash", FALSE)>>

====
